---- MODULE Spec2Model ----
(***************************************************************************)
(* Gemini Archi Designer: the App component's session / history state      *)
(* machine (src/App.tsx), the IndexedDB session store                      *)
(* (src/unnamed/part_000, storageService) and the code around them.        *)
(*                                                                         *)
(* Conventions.  A File is an opaque object; it is modelled by a positive  *)
(* integer token and every File the program creates (an upload, a sketch,  *)
(* a canvas edit, a generated image) gets the next unused token.  null is  *)
(* 0.  historyIndex is 0-based as in the code (-1 .. length-1); TLA+       *)
(* sequences are 1-based, so history[historyIndex] of the code is          *)
(* history[historyIndex + 1] here.  One action is one event handler (or    *)
(* one resumption of an async handler after an await) together with the    *)
(* re-render it causes: the useCallback memoisation and the useEffect      *)
(* that saves the session list are part of every action (Render).          *)
(***************************************************************************)
EXTENDS Integers, Sequences, FiniteSets, TLC

\* ------------------------------------------------------------------ bounds
MaxFiles == 4
MaxClock == 3
MaxCalls == 2
MaxUploads == 2
MaxEdits == 1
MaxWrites == 2
MaxRestarts == 1
MaxInlineImages == 2
MaxEdge == 4

\* const MAX_DIMENSION = 1024 in redesignRoom and generateRotatedView
MAX_DIMENSION == 1024

null == 0

VARIABLES
    sessions,            \* useState<DesignSession[]>([])
    activeSessionId,     \* useState<string | null>(null)
    sessionsLoaded,      \* useState<boolean>(false)
    sceneImage,          \* working base image
    productImage,
    backgroundImage,
    sketchedImage,       \* working overlay
    history,             \* useState<File[]>([])
    historyIndex,        \* useState<number>(-1): the cursor
    prompt,
    originalDimensions,
    isLoading,
    error,
    rotateMemo,          \* what the memoised handleRotateView closes over
    calls,               \* generative calls in flight (awaited promises)
    uploads,             \* handleSceneImageUpload invocations in flight
    edits,               \* handleSaveCanvasEdit invocations in flight
    loadPending,         \* loadSessionsFromDB() of the mount effect in flight
    db,                  \* the object store 'sessions': key (id) -> record
    writes,              \* saveSessionsToDB() calls in flight, oldest first
    clock,               \* the last reading of Date.now()
    nextFile,            \* the next unused File token
    restarts,            \* page loads so far
    service,             \* one redesignRoom / generateRotatedView invocation
    editor               \* the EditCanvasModal component: its state and canvas

vars == <<sessions, activeSessionId, sessionsLoaded, sceneImage, productImage,
          backgroundImage, sketchedImage, history, historyIndex, prompt,
          originalDimensions, isLoading, error, rotateMemo, calls, uploads,
          edits, loadPending, db, writes, clock, nextFile, restarts,
          service, editor>>

working == <<sceneImage, productImage, backgroundImage, sketchedImage, history,
             historyIndex, prompt, originalDimensions, isLoading, error>>

\* ----------------------------------------------------------------- helpers
Min(a, b) == IF a < b THEN a ELSE b
Max(a, b) == IF a > b THEN a ELSE b

\* Files the user picks as product / background: their identity is never
\* compared with a scene file, so one token each suffices.
ProductFile == MaxFiles + 1
BackgroundFile == MaxFiles + 2

\* getImageDimensions(file): the natural size read from that file.  The
\* size is kept abstract: "the dimensions measured from file f".
getImageDimensions(file) == [measuredFrom |-> file]
NoDimensions == [measuredFrom |-> null]

\* Array.prototype.slice(0, end) with JavaScript's index normalisation.
Slice0(arr, end) ==
    LET n == Len(arr)
        e == IF end < 0 THEN Max(n + end, 0) ELSE Min(end, n)
    IN  SubSeq(arr, 1, e)

\* Array.prototype.filter / map / find on sequences.
RECURSIVE FilterOut(_, _)
FilterOut(list, sessionId) ==
    IF list = <<>> THEN <<>>
    ELSE IF Head(list).id # sessionId
         THEN <<Head(list)>> \o FilterOut(Tail(list), sessionId)
         ELSE FilterOut(Tail(list), sessionId)

RemoveAt(seq, i) == SubSeq(seq, 1, i - 1) \o SubSeq(seq, i + 1, Len(seq))

HasId(list, sessionId) == \E i \in 1..Len(list) : list[i].id = sessionId

\* sessions.find(s => s.id === sessionId): the first match.
Find(list, sessionId) ==
    list[CHOOSE i \in 1..Len(list) :
            /\ list[i].id = sessionId
            /\ \A j \in 1..(i - 1) : list[j].id # sessionId]

Ids(list) == {list[i].id : i \in 1..Len(list)}

\* const currentGeneratedImage = history[historyIndex] ?? null
currentGeneratedImage ==
    IF historyIndex >= 0 /\ historyIndex < Len(history)
    THEN history[historyIndex + 1] ELSE null

\* The same with the cursor's image ahead of the overlay.
currentWorkingImageHistoryFirst ==
    IF currentGeneratedImage # null THEN currentGeneratedImage
    ELSE IF sketchedImage # null THEN sketchedImage
    ELSE sceneImage

\* const currentWorkingImage = sketchedImage || currentGeneratedImage || sceneImage
currentWorkingImage ==
    IF sketchedImage # null THEN sketchedImage
    ELSE IF currentGeneratedImage # null THEN currentGeneratedImage
    ELSE sceneImage

\* The dependency array of useCallback(handleRotateView):
\* [currentWorkingImage, originalDimensions, activeSessionId].
RotateDeps == <<currentWorkingImage, originalDimensions, activeSessionId>>

\* What addImageToHistory reads when handleGenerate calls it.  Every state
\* it reads (history, historyIndex, activeSessionId) is in handleGenerate's
\* dependency array, so the closure is the one of the latest render.
GenerateClosure ==
    [history |-> history, historyIndex |-> historyIndex,
     activeSessionId |-> activeSessionId]

\* What addImageToHistory reads when handleRotateView calls it.  history and
\* historyIndex are not in the dependency array: they are the values of the
\* render in which the dependencies last changed.
RotateClosure ==
    [history |-> rotateMemo.history, historyIndex |-> rotateMemo.historyIndex,
     activeSessionId |-> activeSessionId]

\* ------------------------------------------------------------- the store
EmptyStore == [k \in {} |-> null]

\* IDBObjectStore.put(session) with keyPath 'id': insert or overwrite.
Put(store, session) ==
    [k \in (DOMAIN store) \cup {session.id} |->
        IF k = session.id THEN session ELSE store[k]]

RECURSIVE PutAll(_, _)
PutAll(store, list) ==
    IF list = <<>> THEN store ELSE PutAll(Put(store, Head(list)), Tail(list))

\* The readwrite transaction of saveSessionsToDB: clear(), then one put()
\* per session, committed as a whole.
ReplaceAll(store, list) == PutAll(EmptyStore, list)

\* IDBObjectStore.getAll(): the records in ascending key order.  Keys are
\* the decimal strings of clock readings of equal length, so their string
\* order is the numeric order.
RECURSIVE GetAllFrom(_, _)
GetAllFrom(store, keys) ==
    IF keys = {} THEN <<>>
    ELSE LET k == CHOOSE x \in keys : \A y \in keys : x <= y
         IN  <<store[k]>> \o GetAllFrom(store, keys \ {k})

GetAll(store) == GetAllFrom(store, DOMAIN store)

\* request.result.sort((a, b) => b.timestamp - a.timestamp): a stable sort,
\* newest first.  Insert(x, sorted) puts x before the first element that is
\* strictly older and after every element of equal timestamp already seen.
RECURSIVE InsertByTimestamp(_, _)
InsertByTimestamp(x, sorted) ==
    IF sorted = <<>> THEN <<x>>
    ELSE IF Head(sorted).timestamp < x.timestamp
         THEN <<x>> \o sorted
         ELSE <<Head(sorted)>> \o InsertByTimestamp(x, Tail(sorted))

RECURSIVE SortNewestFirst(_)
SortNewestFirst(list) ==
    IF list = <<>> THEN <<>>
    ELSE InsertByTimestamp(list[Len(list)],
                           SortNewestFirst(SubSeq(list, 1, Len(list) - 1)))

\* loadSessionsFromDB() when the store opens.
loadSessionsFromDB(store) == SortNewestFirst(GetAll(store))

\* ------------------------------------------------------ React, per render
\* After a handler has run the component renders again: useCallback keeps
\* the old handleRotateView unless one of its dependencies changed, and the
\* effect [sessions, sessionsLoaded] calls saveSessionsToDB(sessions) when
\* setSessions was called (every call passes a new array) or sessionsLoaded
\* changed, provided sessionsLoaded is true.
Render(setSessionsCalled) ==
    /\ rotateMemo' = IF RotateDeps' # RotateDeps
                     THEN [history |-> history', historyIndex |-> historyIndex']
                     ELSE rotateMemo
    /\ IF sessionsLoaded' /\ (setSessionsCalled \/ ~sessionsLoaded)
       THEN /\ Len(writes) < MaxWrites
            /\ writes' = Append(writes, sessions')
       ELSE writes' = writes

NoError == "null"
NoPrompt == ""

\* ------------------------------------------------------------- App.tsx
\* A variant that pushes onto the whole history and keeps the redo tail.
NewHistoryKeepingRedoTail(h, index, newImage) == Append(h, newImage)

\* const newHistory = history.slice(0, historyIndex + 1); newHistory.push(newImage)
NewHistory(h, index, newImage) == Append(Slice0(h, index + 1), newImage)

\* prevSessions.map(s => s.id === id ? { ...s, generations: g } : s)
WithGenerations(list, sessionId, g) ==
    [i \in 1..Len(list) |->
        IF list[i].id = sessionId THEN [list[i] EXCEPT !.generations = g]
        ELSE list[i]]

\* A variant that replaces the base and keeps the stored generations.
WithNewBaseKeepingGenerations(list, sessionId, file, dimensions) ==
    [i \in 1..Len(list) |->
        IF list[i].id = sessionId
        THEN [list[i] EXCEPT !.sceneImage = file,
                             !.originalDimensions = dimensions]
        ELSE list[i]]

\* prev.map(s => s.id === id ? { ...s, sceneImage, originalDimensions, generations: [] } : s)
WithNewBase(list, sessionId, file, dimensions) ==
    [i \in 1..Len(list) |->
        IF list[i].id = sessionId
        THEN [list[i] EXCEPT !.sceneImage = file,
                             !.originalDimensions = dimensions,
                             !.generations = <<>>]
        ELSE list[i]]

\* addImageToHistory(newImage), run in the closure c of the handler that
\* calls it.
addImageToHistory(c, newImage) ==
    LET newHistory == NewHistory(c.history, c.historyIndex, newImage)
    IN  /\ history' = newHistory
        /\ historyIndex' = Len(newHistory) - 1
        /\ sessions' = IF c.activeSessionId # null
                       THEN WithGenerations(sessions, c.activeSessionId, newHistory)
                       ELSE sessions

\* clearWorkingState(), as the last thing a handler does to these states.
clearWorkingState ==
    /\ sceneImage' = null
    /\ productImage' = null
    /\ backgroundImage' = null
    /\ sketchedImage' = null
    /\ history' = <<>>
    /\ historyIndex' = -1
    /\ prompt' = NoPrompt
    /\ error' = NoError
    /\ isLoading' = FALSE
    /\ originalDimensions' = NoDimensions

\* handleNewProject()
handleNewProject ==
    /\ clearWorkingState
    /\ activeSessionId' = null

\* A variant that shows the selected session with the cursor on the base
\* image instead of on its newest generation.
handleSelectSessionCursorOnBase(list, sessionId) ==
    IF HasId(list, sessionId)
    THEN LET session == Find(list, sessionId)
         IN  /\ sceneImage' = session.sceneImage
             /\ originalDimensions' = session.originalDimensions
             /\ history' = session.generations
             /\ historyIndex' = -1
             /\ activeSessionId' = session.id
             /\ productImage' = null
             /\ backgroundImage' = null
             /\ sketchedImage' = null
             /\ prompt' = NoPrompt
             /\ error' = NoError
             /\ isLoading' = FALSE
    ELSE UNCHANGED <<working, activeSessionId>>

\* handleSelectSession(sessionId), in a closure whose sessions is `list`:
\* clearWorkingState() and then the setters that follow it.
handleSelectSession(list, sessionId) ==
    IF HasId(list, sessionId)
    THEN LET session == Find(list, sessionId)
         IN  /\ sceneImage' = session.sceneImage
             /\ originalDimensions' = session.originalDimensions
             /\ history' = session.generations
             /\ historyIndex' = Len(session.generations) - 1
             /\ activeSessionId' = session.id
             /\ productImage' = null
             /\ backgroundImage' = null
             /\ sketchedImage' = null
             /\ prompt' = NoPrompt
             /\ error' = NoError
             /\ isLoading' = FALSE
    ELSE UNCHANGED <<working, activeSessionId>>

\* The sessions that the mount effect's handleSelectSession closes over: the
\* effect has no dependencies, so it keeps the callback of the first render,
\* where sessions is the initial [].
MountSessions == <<>>

\* The mount effect: loadSessionsFromDB().then(loadedSessions => ...).
\* "ok": the store opened and getAll succeeded; "openfail": openDB rejected,
\* the catch returns []; "getfail": the getAll request failed, the promise
\* rejects and the then-callback never runs.
LoadComplete(outcome) ==
    /\ loadPending
    /\ loadPending' = FALSE
    /\ IF outcome = "getfail"
       THEN UNCHANGED <<sessions, sessionsLoaded, working, activeSessionId,
                        rotateMemo, writes>>
       ELSE LET loadedSessions == IF outcome = "ok" THEN loadSessionsFromDB(db)
                                  ELSE <<>>
            IN  /\ sessions' = loadedSessions
                /\ IF Len(loadedSessions) > 0
                   THEN handleSelectSession(MountSessions, loadedSessions[1].id)
                   ELSE UNCHANGED <<working, activeSessionId>>
                /\ sessionsLoaded' = TRUE
                /\ Render(TRUE)
    /\ UNCHANGED <<calls, uploads, edits, db, clock, nextFile, restarts>>
    /\ UNCHANGED <<service, editor>>

\* The same with a failure that stops persistence: the writes queued behind
\* the failed one are dropped.
WriteCompleteStoppingOnFailure(ok) ==
    /\ writes # <<>>
    /\ db' = IF ok THEN ReplaceAll(db, Head(writes)) ELSE db
    /\ writes' = IF ok THEN Tail(writes) ELSE <<>>
    /\ UNCHANGED <<sessions, activeSessionId, sessionsLoaded, working,
                   rotateMemo, calls, uploads, edits, loadPending, clock,
                   nextFile, restarts>>
    /\ UNCHANGED <<service, editor>>

\* saveSessionsToDB(list) finishes.  The calls open the database one after
\* the other and their transactions run in the order they were created.
\* ok: the transaction commits; otherwise openDB rejected or the transaction
\* aborted, and the store keeps its contents.
WriteComplete(ok) ==
    /\ writes # <<>>
    /\ db' = IF ok THEN ReplaceAll(db, Head(writes)) ELSE db
    /\ writes' = Tail(writes)
    /\ UNCHANGED <<sessions, activeSessionId, sessionsLoaded, working,
                   rotateMemo, calls, uploads, edits, loadPending, clock,
                   nextFile, restarts>>
    /\ UNCHANGED <<service, editor>>

\* A variant that puts the new session behind the existing ones.
WithNewSessionLast(prev, newSession) == prev \o <<newSession>>

\* setSessions(prev => [newSession, ...prev])
WithNewSession(prev, newSession) == <<newSession>> \o prev

\* handleSceneImageUpload(file) up to its first await.  The uploader is
\* disabled={isLoading || !!activeSessionId}.
UploadStart ==
    /\ ~isLoading
    /\ activeSessionId = null
    /\ Len(uploads) < MaxUploads
    /\ nextFile <= MaxFiles
    /\ uploads' = Append(uploads, [file |-> nextFile, name |-> Len(sessions) + 1])
    /\ nextFile' = nextFile + 1
    /\ UNCHANGED <<sessions, activeSessionId, sessionsLoaded, working,
                   rotateMemo, calls, edits, loadPending, db, writes, clock,
                   restarts>>
    /\ UNCHANGED <<service, editor>>

\* handleSceneImageUpload resumes: getImageDimensions resolved and the
\* thumbnail reader's onload runs (ok), or getImageDimensions rejected.
\* Date.now() is read twice, for id and then for timestamp; the clock may
\* or may not have advanced before each reading.
UploadComplete(i, ok, idNow, timestampNow) ==
    /\ i \in 1..Len(uploads)
    /\ uploads' = RemoveAt(uploads, i)
    /\ IF ok
       THEN /\ idNow \in {clock, clock + 1} \ {0}
            /\ timestampNow \in {idNow, idNow + 1}
            /\ timestampNow <= MaxClock
            /\ clock' = timestampNow
            /\ LET file == uploads[i].file
                   newSession == [id |-> idNow,
                                  name |-> uploads[i].name,
                                  timestamp |-> timestampNow,
                                  sceneImage |-> file,
                                  originalDimensions |-> getImageDimensions(file),
                                  generations |-> <<>>]
               IN  /\ sessions' = WithNewSession(sessions, newSession)
                   /\ activeSessionId' = newSession.id
                   /\ sceneImage' = file
                   /\ originalDimensions' = getImageDimensions(file)
            /\ history' = <<>>
            /\ historyIndex' = -1
            /\ prompt' = NoPrompt
            /\ sketchedImage' = null
            /\ productImage' = null
            /\ backgroundImage' = null
            /\ error' = NoError
            /\ UNCHANGED <<isLoading, sessionsLoaded>>
            /\ Render(TRUE)
       ELSE /\ idNow = clock /\ timestampNow = clock
            /\ error' = "Could not read image dimensions. Please try a different image."
            /\ UNCHANGED <<sessions, activeSessionId, sessionsLoaded, sceneImage,
                           productImage, backgroundImage, sketchedImage, history,
                           historyIndex, prompt, originalDimensions, isLoading,
                           clock>>
            /\ Render(FALSE)
    /\ UNCHANGED <<calls, edits, loadPending, db, nextFile, restarts>>
    /\ UNCHANGED <<service, editor>>

\* "Start New Project" / the sidebar's new-session button.
NewProject ==
    /\ handleNewProject
    /\ UNCHANGED <<sessions, sessionsLoaded>>
    /\ Render(FALSE)
    /\ UNCHANGED <<calls, uploads, edits, loadPending, db, clock, nextFile,
                   restarts>>
    /\ UNCHANGED <<service, editor>>

\* The sidebar selects one of the listed sessions.
SelectSession(sessionId) ==
    /\ sessionId \in Ids(sessions)
    /\ handleSelectSession(sessions, sessionId)
    /\ UNCHANGED <<sessions, sessionsLoaded>>
    /\ Render(FALSE)
    /\ UNCHANGED <<calls, uploads, edits, loadPending, db, clock, nextFile,
                   restarts>>
    /\ UNCHANGED <<service, editor>>

\* A variant that removes the session and leaves the working state alone.
handleDeleteSessionOnlyFromList(sessionId) ==
    /\ sessions' = FilterOut(sessions, sessionId)
    /\ UNCHANGED <<working, activeSessionId>>

\* handleDeleteSession(sessionId)
handleDeleteSession(sessionId) ==
    LET remainingSessions == FilterOut(sessions, sessionId)
    IN  /\ sessions' = remainingSessions
        /\ IF activeSessionId = sessionId
           THEN IF Len(remainingSessions) > 0
                THEN handleSelectSession(sessions, remainingSessions[1].id)
                ELSE handleNewProject
           ELSE UNCHANGED <<working, activeSessionId>>

DeleteSession(sessionId) ==
    /\ sessionId \in Ids(sessions)
    /\ handleDeleteSession(sessionId)
    /\ UNCHANGED sessionsLoaded
    /\ Render(TRUE)
    /\ UNCHANGED <<calls, uploads, edits, loadPending, db, clock, nextFile,
                   restarts>>
    /\ UNCHANGED <<service, editor>>

\* The prompt input: rendered with a scene image, disabled={isLoading}.
SetPrompt(text) ==
    /\ sceneImage # null
    /\ ~isLoading
    /\ prompt' = text
    /\ UNCHANGED <<sessions, activeSessionId, sessionsLoaded, sceneImage,
                   productImage, backgroundImage, sketchedImage, history,
                   historyIndex, originalDimensions, isLoading, error>>
    /\ Render(FALSE)
    /\ UNCHANGED <<calls, uploads, edits, loadPending, db, clock, nextFile,
                   restarts>>
    /\ UNCHANGED <<service, editor>>

\* handleAddCustomProduct / handleRemoveProduct / handleAddCustomBackground /
\* handleRemoveBackground.  The controls sit in the panel that has
\* pointer-events-none while isLoading.
SetProduct(file) ==
    /\ sceneImage # null
    /\ ~isLoading
    /\ file = null => productImage # null
    /\ productImage' = file
    /\ UNCHANGED <<sessions, activeSessionId, sessionsLoaded, sceneImage,
                   backgroundImage, sketchedImage, history, historyIndex,
                   prompt, originalDimensions, isLoading, error>>
    /\ Render(FALSE)
    /\ UNCHANGED <<calls, uploads, edits, loadPending, db, clock, nextFile,
                   restarts>>
    /\ UNCHANGED <<service, editor>>

SetBackground(file) ==
    /\ sceneImage # null
    /\ ~isLoading
    /\ file = null => backgroundImage # null
    /\ backgroundImage' = file
    /\ UNCHANGED <<sessions, activeSessionId, sessionsLoaded, sceneImage,
                   productImage, sketchedImage, history, historyIndex,
                   prompt, originalDimensions, isLoading, error>>
    /\ Render(FALSE)
    /\ UNCHANGED <<calls, uploads, edits, loadPending, db, clock, nextFile,
                   restarts>>
    /\ UNCHANGED <<service, editor>>

\* handleSaveSketch(dataUrl): the drawing modal saves a new sketch File.
SaveSketch ==
    /\ sceneImage # null
    /\ ~isLoading
    /\ nextFile <= MaxFiles
    /\ sketchedImage' = nextFile
    /\ nextFile' = nextFile + 1
    /\ UNCHANGED <<sessions, activeSessionId, sessionsLoaded, sceneImage,
                   productImage, backgroundImage, history, historyIndex,
                   prompt, originalDimensions, isLoading, error>>
    /\ Render(FALSE)
    /\ UNCHANGED <<calls, uploads, edits, loadPending, db, clock, restarts>>
    /\ UNCHANGED <<service, editor>>

\* handleRemoveSketch(): the badge is rendered while a sketch is present.
RemoveSketch ==
    /\ sketchedImage # null
    /\ ~isLoading
    /\ sketchedImage' = null
    /\ UNCHANGED <<sessions, activeSessionId, sessionsLoaded, sceneImage,
                   productImage, backgroundImage, history, historyIndex,
                   prompt, originalDimensions, isLoading, error>>
    /\ Render(FALSE)
    /\ UNCHANGED <<calls, uploads, edits, loadPending, db, clock, nextFile,
                   restarts>>
    /\ UNCHANGED <<service, editor>>

\* A variant that jumps back to the original image.
handleUndoToOriginal(index) == IF index >= 0 THEN -1 ELSE index

\* const handleUndo = () => historyIndex >= 0 && setHistoryIndex(historyIndex - 1)
handleUndo(index) == IF index >= 0 THEN index - 1 ELSE index

\* const handleRedo = () => historyIndex < history.length - 1 && setHistoryIndex(historyIndex + 1)
handleRedo(h, index) == IF index < Len(h) - 1 THEN index + 1 ELSE index

canUndo == historyIndex >= 0
canRedo == historyIndex < Len(history) - 1

\* A variant of Undo that also stores the step in the session list.
UndoSavingSessions ==
    /\ sceneImage # null /\ Len(history) > 0
    /\ ~isLoading
    /\ historyIndex >= 0
    /\ historyIndex' = historyIndex - 1
    /\ UNCHANGED <<sessions, activeSessionId, sessionsLoaded, sceneImage,
                   productImage, backgroundImage, sketchedImage, history,
                   prompt, originalDimensions, isLoading, error>>
    /\ Render(TRUE)
    /\ UNCHANGED <<calls, uploads, edits, loadPending, db, clock, nextFile,
                   restarts>>
    /\ UNCHANGED <<service, editor>>

\* The undo / redo buttons: rendered with a scene image and a non-empty
\* history, disabled={!canUndo} / disabled={!canRedo}.
Undo ==
    /\ sceneImage # null /\ Len(history) > 0
    /\ ~isLoading
    /\ canUndo
    /\ historyIndex' = handleUndo(historyIndex)
    /\ UNCHANGED <<sessions, activeSessionId, sessionsLoaded, sceneImage,
                   productImage, backgroundImage, sketchedImage, history,
                   prompt, originalDimensions, isLoading, error>>
    /\ Render(FALSE)
    /\ UNCHANGED <<calls, uploads, edits, loadPending, db, clock, nextFile,
                   restarts>>
    /\ UNCHANGED <<service, editor>>

Redo ==
    /\ sceneImage # null /\ Len(history) > 0
    /\ ~isLoading
    /\ canRedo
    /\ historyIndex' = handleRedo(history, historyIndex)
    /\ UNCHANGED <<sessions, activeSessionId, sessionsLoaded, sceneImage,
                   productImage, backgroundImage, sketchedImage, history,
                   prompt, originalDimensions, isLoading, error>>
    /\ Render(FALSE)
    /\ UNCHANGED <<calls, uploads, edits, loadPending, db, clock, nextFile,
                   restarts>>
    /\ UNCHANGED <<service, editor>>

\* What a handler hands to the generative service, and the closure in which
\* its continuation will run.  shown is what the screen showed at the click.
NewCall(kind, closure) ==
    [kind |-> kind,
     image |-> currentWorkingImage,
     dimensions |-> originalDimensions,
     productImage |-> IF kind = "redesign" THEN productImage ELSE null,
     backgroundImage |-> IF kind = "redesign" THEN backgroundImage ELSE null,
     isSketched |-> (kind = "redesign" /\ sketchedImage # null),
     closure |-> closure,
     shown |-> [history |-> history, historyIndex |-> historyIndex,
                activeSessionId |-> activeSessionId]]

\* handleGenerate() up to the await.  The button is rendered with a scene
\* image, disabled={isLoading || !prompt}.
GenerateStart ==
    /\ sceneImage # null
    /\ ~isLoading /\ prompt # NoPrompt
    /\ Len(calls) < MaxCalls
    /\ IF currentWorkingImage = null \/ prompt = NoPrompt
          \/ originalDimensions = NoDimensions
       THEN /\ error' = "Please upload an image of your property and provide a design prompt."
            /\ UNCHANGED <<isLoading, calls>>
       ELSE /\ isLoading' = TRUE
            /\ error' = NoError
            /\ calls' = Append(calls, NewCall("redesign", GenerateClosure))
    /\ UNCHANGED <<sessions, activeSessionId, sessionsLoaded, sceneImage,
                   productImage, backgroundImage, sketchedImage, history,
                   historyIndex, prompt, originalDimensions>>
    /\ Render(FALSE)
    /\ UNCHANGED <<uploads, edits, loadPending, db, clock, nextFile, restarts>>
    /\ UNCHANGED <<service, editor>>

\* handleRotateView(direction) up to the await.  The buttons are rendered
\* with a scene image, disabled={isLoading}.  The direction only selects the
\* wording of the request.
RotateStart ==
    /\ sceneImage # null
    /\ ~isLoading
    /\ Len(calls) < MaxCalls
    /\ IF currentWorkingImage = null \/ originalDimensions = NoDimensions
       THEN /\ error' = "An image must be present to create a rotated view."
            /\ UNCHANGED <<isLoading, calls>>
       ELSE /\ isLoading' = TRUE
            /\ error' = NoError
            /\ calls' = Append(calls, NewCall("rotate", RotateClosure))
    /\ UNCHANGED <<sessions, activeSessionId, sessionsLoaded, sceneImage,
                   productImage, backgroundImage, sketchedImage, history,
                   historyIndex, prompt, originalDimensions>>
    /\ Render(FALSE)
    /\ UNCHANGED <<uploads, edits, loadPending, db, clock, nextFile, restarts>>
    /\ UNCHANGED <<service, editor>>

\* A variant that takes the first part of the response without looking for
\* its inline data.
ServiceOutcomeUnchecked(inlineImages) == "image"

\* redesignRoom / generateRotatedView once generateContent has answered with
\* a response that holds `inlineImages` parts with inline data:
\* parts.find(part => part.inlineData) is used when there is one, otherwise
\* the service throws "did not return an image".
ServiceOutcome(inlineImages) ==
    IF inlineImages > 0 THEN "image" ELSE "noimage"

\* The same without the finally block: setIsLoading(false) as the last
\* statement of the try block, skipped when the awaited call throws.
CallCompleteWithoutFinally(i, outcome) ==
    /\ i \in 1..Len(calls)
    /\ calls' = RemoveAt(calls, i)
    /\ isLoading' = IF outcome = "image" THEN FALSE ELSE isLoading
    /\ IF outcome = "image"
       THEN /\ nextFile <= MaxFiles
            /\ nextFile' = nextFile + 1
            /\ addImageToHistory(calls[i].closure, nextFile)
            /\ IF calls[i].kind = "redesign"
               THEN /\ sketchedImage' = null
                    /\ productImage' = null
                    /\ backgroundImage' = null
                    /\ prompt' = NoPrompt
               ELSE UNCHANGED <<sketchedImage, productImage, backgroundImage,
                                prompt>>
            /\ UNCHANGED <<error, activeSessionId, sessionsLoaded, sceneImage,
                           originalDimensions>>
            /\ Render(calls[i].closure.activeSessionId # null)
       ELSE /\ error' = IF calls[i].kind = "redesign"
                        THEN IF outcome = "noimage"
                             THEN "Failed to generate the image. The AI model did not return an image. Please try again."
                             ELSE "Failed to generate the image. An unknown error occurred."
                        ELSE IF outcome = "noimage"
                             THEN "Failed to generate the rotated view. The AI model did not return an image for rotation."
                             ELSE "Failed to generate the rotated view. An unknown error occurred."
            /\ UNCHANGED <<sessions, activeSessionId, sessionsLoaded, sceneImage,
                           productImage, backgroundImage, sketchedImage, history,
                           historyIndex, prompt, originalDimensions, nextFile>>
            /\ Render(FALSE)
    /\ UNCHANGED <<uploads, edits, loadPending, db, clock, restarts>>
    /\ UNCHANGED <<service, editor>>

\* The awaited redesignRoom / generateRotatedView settles and the handler
\* resumes.  "image": the response held an inline image and the new File was
\* built; "noimage": the service threw "did not return an image"; "error":
\* any other rejection (transport, decode).
CallComplete(i, outcome) ==
    /\ i \in 1..Len(calls)
    /\ calls' = RemoveAt(calls, i)
    /\ isLoading' = FALSE
    /\ IF outcome = "image"
       THEN /\ nextFile <= MaxFiles
            /\ nextFile' = nextFile + 1
            /\ addImageToHistory(calls[i].closure, nextFile)
            /\ IF calls[i].kind = "redesign"
               THEN /\ sketchedImage' = null
                    /\ productImage' = null
                    /\ backgroundImage' = null
                    /\ prompt' = NoPrompt
               ELSE UNCHANGED <<sketchedImage, productImage, backgroundImage,
                                prompt>>
            /\ UNCHANGED <<error, activeSessionId, sessionsLoaded, sceneImage,
                           originalDimensions>>
            /\ Render(calls[i].closure.activeSessionId # null)
       ELSE /\ error' = IF calls[i].kind = "redesign"
                        THEN IF outcome = "noimage"
                             THEN "Failed to generate the image. The AI model did not return an image. Please try again."
                             ELSE "Failed to generate the image. An unknown error occurred."
                        ELSE IF outcome = "noimage"
                             THEN "Failed to generate the rotated view. The AI model did not return an image for rotation."
                             ELSE "Failed to generate the rotated view. An unknown error occurred."
            /\ UNCHANGED <<sessions, activeSessionId, sessionsLoaded, sceneImage,
                           productImage, backgroundImage, sketchedImage, history,
                           historyIndex, prompt, originalDimensions, nextFile>>
            /\ Render(FALSE)
    /\ UNCHANGED <<uploads, edits, loadPending, db, clock, restarts>>
    /\ UNCHANGED <<service, editor>>

\* A variant that resets the working state and leaves the session list alone.
handleRevertOnlyWorkingState ==
    /\ history' = <<>>
    /\ historyIndex' = -1
    /\ sketchedImage' = null
    /\ sessions' = sessions

\* A variant that empties the history and leaves the cursor where it was.
handleRevertKeepingCursor ==
    /\ history' = <<>>
    /\ historyIndex' = historyIndex
    /\ sketchedImage' = null
    /\ sessions' = IF activeSessionId # null
                   THEN WithGenerations(sessions, activeSessionId, <<>>)
                   ELSE sessions

\* handleRevertToOriginal(): the button is rendered with a scene image and
\* (history.length > 0 || sketchedImage).
handleRevertToOriginal ==
    /\ history' = <<>>
    /\ historyIndex' = -1
    /\ sketchedImage' = null
    /\ sessions' = IF activeSessionId # null
                   THEN WithGenerations(sessions, activeSessionId, <<>>)
                   ELSE sessions

RevertToOriginal ==
    /\ sceneImage # null
    /\ Len(history) > 0 \/ sketchedImage # null
    /\ ~isLoading
    /\ handleRevertToOriginal
    /\ UNCHANGED <<activeSessionId, sessionsLoaded, sceneImage, productImage,
                   backgroundImage, prompt, originalDimensions, isLoading, error>>
    /\ Render(activeSessionId # null)
    /\ UNCHANGED <<calls, uploads, edits, loadPending, db, clock, nextFile,
                   restarts>>
    /\ UNCHANGED <<service, editor>>

\* EditCanvasModal "Apply & Save": handleSaveCanvasEdit(newFile) up to its
\* await.  The modal renders only with an image file; its button sits in
\* the panel with the scene image.
EditStart ==
    /\ sceneImage # null
    /\ ~isLoading
    /\ currentWorkingImage # null
    /\ Len(edits) < MaxEdits
    /\ nextFile <= MaxFiles
    /\ edits' = Append(edits, [file |-> nextFile,
                               activeSessionId |-> activeSessionId])
    /\ nextFile' = nextFile + 1
    /\ UNCHANGED <<sessions, activeSessionId, sessionsLoaded, working,
                   rotateMemo, calls, uploads, loadPending, db, writes, clock,
                   restarts>>
    /\ UNCHANGED <<service, editor>>

\* A variant that resets the overlay, the history and the cursor before the
\* dimensions are read, so that a failed read leaves them reset.
EditCompleteResettingFirst(i, ok) ==
    /\ i \in 1..Len(edits)
    /\ edits' = RemoveAt(edits, i)
    /\ sketchedImage' = null
    /\ history' = <<>>
    /\ historyIndex' = -1
    /\ IF ok
       THEN LET newFile == edits[i].file
                dimensions == getImageDimensions(newFile)
                id == edits[i].activeSessionId
            IN  /\ sceneImage' = newFile
                /\ originalDimensions' = dimensions
                /\ sessions' = IF id # null
                               THEN WithNewBase(sessions, id, newFile, dimensions)
                               ELSE sessions
                /\ UNCHANGED <<activeSessionId, sessionsLoaded, productImage,
                               backgroundImage, prompt, isLoading, error>>
                /\ Render(id # null)
       ELSE /\ error' = "Failed to process edited image."
            /\ UNCHANGED <<sessions, activeSessionId, sessionsLoaded, sceneImage,
                           productImage, backgroundImage, prompt,
                           originalDimensions, isLoading>>
            /\ Render(FALSE)
    /\ UNCHANGED <<calls, uploads, loadPending, db, clock, nextFile, restarts>>
    /\ UNCHANGED <<service, editor>>

\* handleSaveCanvasEdit resumes after getImageDimensions(newFile).
EditComplete(i, ok) ==
    /\ i \in 1..Len(edits)
    /\ edits' = RemoveAt(edits, i)
    /\ IF ok
       THEN LET newFile == edits[i].file
                dimensions == getImageDimensions(newFile)
                id == edits[i].activeSessionId
            IN  /\ sceneImage' = newFile
                /\ originalDimensions' = dimensions
                /\ sketchedImage' = null
                /\ history' = <<>>
                /\ historyIndex' = -1
                /\ sessions' = IF id # null
                               THEN WithNewBase(sessions, id, newFile, dimensions)
                               ELSE sessions
                /\ UNCHANGED <<activeSessionId, sessionsLoaded, productImage,
                               backgroundImage, prompt, isLoading, error>>
                /\ Render(id # null)
       ELSE /\ error' = "Failed to process edited image."
            /\ UNCHANGED <<sessions, activeSessionId, sessionsLoaded, sceneImage,
                           productImage, backgroundImage, sketchedImage, history,
                           historyIndex, prompt, originalDimensions, isLoading>>
            /\ Render(FALSE)
    /\ UNCHANGED <<calls, uploads, loadPending, db, clock, nextFile, restarts>>
    /\ UNCHANGED <<service, editor>>

\* The page is loaded again: the component mounts with its initial state and
\* its mount effect starts a load; whatever was in flight is gone.
Restart ==
    /\ restarts < MaxRestarts
    /\ restarts' = restarts + 1
    /\ sessions' = <<>>
    /\ activeSessionId' = null
    /\ sessionsLoaded' = FALSE
    /\ sceneImage' = null
    /\ productImage' = null
    /\ backgroundImage' = null
    /\ sketchedImage' = null
    /\ history' = <<>>
    /\ historyIndex' = -1
    /\ prompt' = NoPrompt
    /\ originalDimensions' = NoDimensions
    /\ isLoading' = FALSE
    /\ error' = NoError
    /\ rotateMemo' = [history |-> <<>>, historyIndex |-> -1]
    /\ calls' = <<>>
    /\ uploads' = <<>>
    /\ edits' = <<>>
    /\ writes' = <<>>
    /\ loadPending' = TRUE
    /\ UNCHANGED <<db, clock, nextFile>>
    /\ UNCHANGED <<service, editor>>

\* ------------------------------------------------- the generative service
\* src/unnamed/part_000: resizeImage ("normalize"), cropToOriginalAspectRatio
\* ("restore"), redesignRoom and generateRotatedView.  A JavaScript number is
\* an exact rational <<numerator, denominator>> in lowest terms (the
\* rounding of doubles is not modelled); pixel sizes of a canvas are
\* integers.
RECURSIVE GCD(_, _)
GCD(a, b) == IF b = 0 THEN a ELSE GCD(b, a % b)

Rat(n, d) == LET g == GCD(n, d) IN <<n \div g, d \div g>>
RatDiv(a, b) == Rat(a[1] * b[2], a[2] * b[1])
RatMul(a, b) == Rat(a[1] * b[1], a[2] * b[2])
RatSub(a, b) ==
    LET l == (a[2] \div GCD(a[2], b[2])) * b[2]
    IN  Rat(a[1] * (l \div a[2]) - b[1] * (l \div b[2]), l)
RatHalf(a) == Rat(a[1], 2 * a[2])
RatLess(a, b) == a[1] * b[2] < b[1] * a[2]

\* Assigning a number to canvas.width / canvas.height (unsigned long)
\* truncates it.
ToUnsignedLong(a) == a[1] \div a[2]

\* A normalize that draws the scaled image in the top left corner, all the
\* padding to its right or below it.
resizeImageRectTopLeft(imgWidth, imgHeight, targetDimension) ==
    LET aspectRatio == RatDiv(Rat(imgWidth, 1), Rat(imgHeight, 1))
        landscape == RatLess(Rat(1, 1), aspectRatio)
        newWidth == IF landscape THEN Rat(targetDimension, 1)
                    ELSE RatMul(Rat(targetDimension, 1), aspectRatio)
        newHeight == IF landscape
                     THEN RatDiv(Rat(targetDimension, 1), aspectRatio)
                     ELSE Rat(targetDimension, 1)
    IN  [x |-> Rat(0, 1),
         y |-> Rat(0, 1),
         width |-> newWidth,
         height |-> newHeight]

\* resizeImage: where the scaled image is drawn on the
\* targetDimension x targetDimension canvas.
resizeImageRect(imgWidth, imgHeight, targetDimension) ==
    LET aspectRatio == RatDiv(Rat(imgWidth, 1), Rat(imgHeight, 1))
        landscape == RatLess(Rat(1, 1), aspectRatio)
        newWidth == IF landscape THEN Rat(targetDimension, 1)
                    ELSE RatMul(Rat(targetDimension, 1), aspectRatio)
        newHeight == IF landscape
                     THEN RatDiv(Rat(targetDimension, 1), aspectRatio)
                     ELSE Rat(targetDimension, 1)
    IN  [x |-> RatHalf(RatSub(Rat(targetDimension, 1), newWidth)),
         y |-> RatHalf(RatSub(Rat(targetDimension, 1), newHeight)),
         width |-> newWidth,
         height |-> newHeight]

\* A restore whose offset is not halved (the content taken from the far
\* corner of the padding).
cropRectUncentered(originalWidth, originalHeight, targetDimension) ==
    LET aspectRatio == RatDiv(Rat(originalWidth, 1), Rat(originalHeight, 1))
        landscape == RatLess(Rat(1, 1), aspectRatio)
        contentWidth == IF landscape THEN Rat(targetDimension, 1)
                        ELSE RatMul(Rat(targetDimension, 1), aspectRatio)
        contentHeight == IF landscape
                         THEN RatDiv(Rat(targetDimension, 1), aspectRatio)
                         ELSE Rat(targetDimension, 1)
    IN  [x |-> RatSub(Rat(targetDimension, 1), contentWidth),
         y |-> RatSub(Rat(targetDimension, 1), contentHeight),
         width |-> contentWidth,
         height |-> contentHeight]

\* cropToOriginalAspectRatio: the source rectangle taken from the square
\* image.
cropRect(originalWidth, originalHeight, targetDimension) ==
    LET aspectRatio == RatDiv(Rat(originalWidth, 1), Rat(originalHeight, 1))
        landscape == RatLess(Rat(1, 1), aspectRatio)
        contentWidth == IF landscape THEN Rat(targetDimension, 1)
                        ELSE RatMul(Rat(targetDimension, 1), aspectRatio)
        contentHeight == IF landscape
                         THEN RatDiv(Rat(targetDimension, 1), aspectRatio)
                         ELSE Rat(targetDimension, 1)
    IN  [x |-> RatHalf(RatSub(Rat(targetDimension, 1), contentWidth)),
         y |-> RatHalf(RatSub(Rat(targetDimension, 1), contentHeight)),
         width |-> contentWidth,
         height |-> contentHeight]

\* cropToOriginalAspectRatio: the pixel size of the canvas it returns.
cropToOriginalAspectRatio(originalWidth, originalHeight, targetDimension) ==
    LET content == cropRect(originalWidth, originalHeight, targetDimension)
    IN  [width |-> ToUnsignedLong(content.width),
         height |-> ToUnsignedLong(content.height)]

\* An image file is known by its role and its pixel size.
NoFile == [name |-> "none", width |-> 0, height |-> 0]
ImageFile(name, width, height) ==
    [name |-> name, width |-> width, height |-> height]

\* resizeImage: the file it resolves with, a targetDimension square.
resizeImage(file, targetDimension) ==
    ImageFile(file.name, targetDimension, targetDimension)

fileToPart(file) == [inlineData |-> file]

\* The instruction blocks of the redesign prompt, by their headings.
RoleAndGoal == "Role and Goal:"
SketchBlock == "Critical Instruction: Sketch-Based Editing ONLY."
ProductBlock == "Product Placement Instructions:"
BackgroundBlock == "Critical Task: Background Replacement"
FinalOutput == "Final Output Requirements:"

\* The ordinal by which an instruction block names the image it is about:
\* "a second image containing a specific element" in the product block,
\* "Background Image (third image provided)" in the background block, and
\* "Main Image (first image)" everywhere else.
OrdinalInBlock(block) ==
    IF block = ProductBlock THEN 2
    ELSE IF block = BackgroundBlock THEN 3
    ELSE 1

\* A prompt that appends the background block before the product block.
redesignPromptBackgroundFirst(isSketched, product, background) ==
    <<RoleAndGoal>>
        \o (IF isSketched THEN <<SketchBlock>> ELSE <<>>)
        \o (IF background # NoFile THEN <<BackgroundBlock>> ELSE <<>>)
        \o (IF product # NoFile THEN <<ProductBlock>> ELSE <<>>)
        \o <<FinalOutput>>

\* redesignRoom: the text of the request.
redesignPrompt(isSketched, product, background) ==
    <<RoleAndGoal>>
        \o (IF isSketched THEN <<SketchBlock>> ELSE <<>>)
        \o (IF product # NoFile THEN <<ProductBlock>> ELSE <<>>)
        \o (IF background # NoFile THEN <<BackgroundBlock>> ELSE <<>>)
        \o <<FinalOutput>>

\* A request whose text part is pushed before the auxiliary images.
redesignPartsTextFirst(resizedRoomImage, product, background, text) ==
    <<fileToPart(resizedRoomImage), [text |-> text]>>
        \o (IF product # NoFile THEN <<fileToPart(product)>> ELSE <<>>)
        \o (IF background # NoFile
            THEN <<fileToPart(background)>> ELSE <<>>)

\* redesignRoom: the parts of the request.
redesignParts(resizedRoomImage, product, background, text) ==
    <<fileToPart(resizedRoomImage)>>
        \o (IF product # NoFile THEN <<fileToPart(product)>> ELSE <<>>)
        \o (IF background # NoFile
            THEN <<fileToPart(background)>> ELSE <<>>)
        \o <<[text |-> text]>>

\* generateRotatedView: the text and the parts of the request.
RotationPrompt == <<RoleAndGoal, "Core Task: Incremental Camera Rotation",
                    FinalOutput>>
rotationParts(resizedImage) ==
    <<fileToPart(resizedImage), [text |-> RotationPrompt]>>

\* The pixel edges of the images tried: small ones, fractions of
\* MAX_DIMENSION and one larger than it.
Edges == (1..MaxEdge) \cup {MAX_DIMENSION \div k : k \in 1..MaxEdge}
            \cup {2 * MAX_DIMENSION}
AuxFiles(name) == {NoFile} \cup
                  {ImageFile(name, edge, edge) : edge \in {MaxEdge, MAX_DIMENSION}}

ServiceIdle == [stage |-> "idle"]
NoRect == [x |-> <<0, 1>>, y |-> <<0, 1>>, width |-> <<0, 1>>,
           height |-> <<0, 1>>]

\* The messages of the errors the two functions throw.
NoImageMessage(kind) ==
    IF kind = "redesign"
    THEN "The AI model did not return an image. Please try again."
    ELSE "The AI model did not return an image for rotation."


appVars == <<sessions, activeSessionId, sessionsLoaded, sceneImage,
             productImage, backgroundImage, sketchedImage, history,
             historyIndex, prompt, originalDimensions, isLoading, error,
             rotateMemo, calls, uploads, edits, loadPending, db, writes,
             clock, nextFile, restarts>>

\* redesignRoom(...) or generateRotatedView(...) is called.
ServiceInvoke(kind, image, originalWidth, originalHeight, product, background, isSketched) ==
    /\ service.stage = "idle"
    /\ kind = "rotate" => product = NoFile /\ background = NoFile /\ ~isSketched
    /\ service' = [stage |-> "invoked",
                   kind |-> kind,
                   image |-> image,
                   originalWidth |-> originalWidth,
                   originalHeight |-> originalHeight,
                   productImage |-> product,
                   backgroundImage |-> background,
                   isSketched |-> isSketched,
                   requests |-> 0,
                   drawn |-> NoRect,
                   parts |-> <<>>,
                   result |-> NoFile,
                   thrown |-> NoError]
    /\ UNCHANGED <<appVars, editor>>

\* The function runs up to its await of generateContent: it resizes the
\* image, reads the files into parts, composes the text and sends the
\* request; or a file cannot be read or drawn (ok = FALSE) and it throws.
ServiceSend(ok) ==
    /\ service.stage = "invoked"
    /\ IF ok
       THEN LET resized == resizeImage(service.image, MAX_DIMENSION)
                text == redesignPrompt(service.isSketched,
                                       service.productImage,
                                       service.backgroundImage)
            IN  service' =
                    [service EXCEPT
                        !.stage = "sent",
                        !.drawn = resizeImageRect(service.image.width,
                                                  service.image.height,
                                                  MAX_DIMENSION),
                        !.parts = IF service.kind = "redesign"
                                  THEN redesignParts(resized,
                                                     service.productImage,
                                                     service.backgroundImage,
                                                     text)
                                  ELSE rotationParts(resized),
                        !.requests = service.requests + 1]
       ELSE service' = [service EXCEPT !.stage = "failed",
                                       !.thrown = "Failed to read file."]
    /\ UNCHANGED <<appVars, editor>>

\* A service that sends the request again when the response has no image.
ServiceRespondRetrying(outcome) ==
    /\ service.stage = "sent"
    /\ service' =
        IF outcome = "image"
        THEN [service EXCEPT
                !.stage = "returned",
                !.result =
                    LET size == cropToOriginalAspectRatio(
                                    service.originalWidth,
                                    service.originalHeight, MAX_DIMENSION)
                    IN  ImageFile("generated", size.width, size.height)]
        ELSE IF outcome = "noimage" /\ service.requests = 1
        THEN [service EXCEPT !.requests = service.requests + 1]
        ELSE [service EXCEPT !.stage = "failed",
                             !.thrown = NoImageMessage(service.kind)]
    /\ UNCHANGED <<appVars, editor>>

\* generateContent settles and the function runs to its end: it crops the
\* returned image to the original aspect ratio and returns it, or throws
\* when the response holds no image ("noimage") or the call was rejected
\* ("error").
ServiceRespond(outcome) ==
    /\ service.stage = "sent"
    /\ service' =
        IF outcome = "image"
        THEN [service EXCEPT
                !.stage = "returned",
                !.result =
                    LET size == cropToOriginalAspectRatio(
                                    service.originalWidth,
                                    service.originalHeight, MAX_DIMENSION)
                    IN  ImageFile("generated", size.width, size.height)]
        ELSE [service EXCEPT
                !.stage = "failed",
                !.thrown = IF outcome = "noimage"
                           THEN NoImageMessage(service.kind)
                           ELSE "An unknown error occurred."]
    /\ UNCHANGED <<appVars, editor>>

\* The caller's await settles; the invocation is over.
ServiceSettle ==
    /\ service.stage \in {"returned", "failed"}
    /\ service' = ServiceIdle
    /\ UNCHANGED <<appVars, editor>>

\* --------------------------------------------------------------- the spec
\* ------------------------------------------------- the trim/expand editor
\* useState({ top: 0, bottom: 0, left: 0, right: 0 })
NoMargins == [top |-> 0, bottom |-> 0, left |-> 0, right |-> 0]

\* The canvas before anything was drawn on it.
NoCanvas == [width |-> 0, height |-> 0, sX |-> 0, sY |-> 0,
             offsetX |-> 0, offsetY |-> 0]

\* The component as it is mounted: useState('expand'), useState('blur'),
\* no image; it renders nothing while !isOpen || !imageFile.
EditorClosed ==
    [isOpen |-> FALSE, w |-> 0, h |-> 0, mode |-> "expand",
     fillStyle |-> "blur", margins |-> NoMargins, canvas |-> NoCanvas]
Sides == {"top", "bottom", "left", "right"}

\* Math.floor(edge * (margin / 100)): a percentage margin in pixels.
MarginPixels(edge, margin) == (edge * margin) \div 100

\* The max attribute of the margin sliders: mode === 'trim' ? "45" : "50".
SliderMax(mode) == IF mode = "trim" THEN 45 ELSE 50

\* drawPreview(), in img.onload: the size it gives the canvas, the source
\* offset of the trimmed region (sX, sY) and the offset at which the original
\* is drawn in the expanded canvas (offsetX, offsetY).
drawPreview(w, h, mode, margins) ==
    LET mTop == MarginPixels(h, margins.top)
        mBottom == MarginPixels(h, margins.bottom)
        mLeft == MarginPixels(w, margins.left)
        mRight == MarginPixels(w, margins.right)
    IN  IF mode = "trim"
        THEN [width |-> Max(1, w - mLeft - mRight),
              height |-> Max(1, h - mTop - mBottom),
              sX |-> mLeft, sY |-> mTop, offsetX |-> 0, offsetY |-> 0]
        ELSE [width |-> w + mLeft + mRight,
              height |-> h + mTop + mBottom,
              sX |-> 0, sY |-> 0, offsetX |-> mLeft, offsetY |-> mTop]

\* The effect that runs drawPreview whenever previewUrl, margins, mode or
\* fillStyle changed.
Redraw(e) ==
    [e EXCEPT !.canvas = drawPreview(e.w, e.h, e.mode, e.margins)]

Init ==
    /\ sessions = <<>>
    /\ activeSessionId = null
    /\ sessionsLoaded = FALSE
    /\ sceneImage = null
    /\ productImage = null
    /\ backgroundImage = null
    /\ sketchedImage = null
    /\ history = <<>>
    /\ historyIndex = -1
    /\ prompt = NoPrompt
    /\ originalDimensions = NoDimensions
    /\ isLoading = FALSE
    /\ error = NoError
    /\ rotateMemo = [history |-> <<>>, historyIndex |-> -1]
    /\ calls = <<>>
    /\ uploads = <<>>
    /\ edits = <<>>
    /\ loadPending = TRUE
    /\ db = EmptyStore
    /\ writes = <<>>
    /\ clock = 0
    /\ nextFile = 1
    /\ restarts = 0
    /\ service = ServiceIdle
    /\ editor = EditorClosed

\* Spec: one page load, one project being edited, a store that works.  Every
\* editing handler of the App component with every outcome of the generative
\* call and of the dimension reads; Date.now() advances by one per created
\* session.
Next ==
    \/ LoadComplete("ok")
    \/ WriteComplete(TRUE)
    \/ UploadStart
    \/ \E i \in 1..MaxUploads : UploadComplete(i, TRUE, clock + 1, clock + 1)
    \/ \E i \in 1..MaxUploads : UploadComplete(i, FALSE, clock, clock)
    \/ \E text \in {NoPrompt, "Add a pool"} : SetPrompt(text)
    \/ \E file \in {null, ProductFile} : SetProduct(file)
    \/ \E file \in {null, BackgroundFile} : SetBackground(file)
    \/ SaveSketch
    \/ RemoveSketch
    \/ Undo
    \/ Redo
    \/ GenerateStart
    \/ RotateStart
    \/ \E i \in 1..MaxCalls, inlineImages \in 0..MaxInlineImages :
            CallComplete(i, ServiceOutcome(inlineImages))
    \/ \E i \in 1..MaxCalls : CallComplete(i, "error")
    \/ RevertToOriginal
    \/ EditStart
    \/ \E i \in 1..MaxEdits, ok \in BOOLEAN : EditComplete(i, ok)

Spec == Init /\ [][Next]_vars

\* SpecSessions: one page load with the sidebar: projects are created,
\* selected, deleted and abandoned (also while a call or a dimension read is
\* in flight), and edited by rotation, sketch, undo / redo, revert and
\* canvas edit.  A rotation is submitted only when no call is in flight
\* (overlapping calls are explored by SpecCalls).
NextSessions ==
    \/ LoadComplete("ok")
    \/ WriteComplete(TRUE)
    \/ UploadStart
    \/ \E i \in 1..MaxUploads : UploadComplete(i, TRUE, clock + 1, clock + 1)
    \/ \E i \in 1..MaxUploads : UploadComplete(i, FALSE, clock, clock)
    \/ NewProject
    \/ \E sessionId \in 1..MaxClock : SelectSession(sessionId)
    \/ \E sessionId \in 1..MaxClock : DeleteSession(sessionId)
    \/ SaveSketch
    \/ RemoveSketch
    \/ Undo
    \/ Redo
    \/ calls = <<>> /\ RotateStart
    \/ \E i \in 1..MaxCalls, inlineImages \in 0..MaxInlineImages :
            CallComplete(i, ServiceOutcome(inlineImages))
    \/ \E i \in 1..MaxCalls : CallComplete(i, "error")
    \/ RevertToOriginal
    \/ EditStart
    \/ \E i \in 1..MaxEdits, ok \in BOOLEAN : EditComplete(i, ok)

SpecSessions == Init /\ [][NextSessions]_vars

\* SpecStore: the durable store over page loads.  Loads and writes succeed or
\* fail, the page is reloaded, Date.now() may return the same reading twice,
\* and the session list is changed by uploads, rotations and deletions.
NextStore ==
    \/ \E outcome \in {"ok", "openfail", "getfail"} : LoadComplete(outcome)
    \/ \E ok \in BOOLEAN : WriteComplete(ok)
    \/ Restart
    \/ UploadStart
    \/ \E i \in 1..MaxUploads, idNow \in 1..MaxClock, timestampNow \in 1..MaxClock :
            UploadComplete(i, TRUE, idNow, timestampNow)
    \/ \E sessionId \in 1..MaxClock : SelectSession(sessionId)
    \/ \E sessionId \in 1..MaxClock : DeleteSession(sessionId)
    \/ calls = <<>> /\ RotateStart
    \/ \E i \in 1..MaxCalls : CallComplete(i, ServiceOutcome(1))

SpecStore == Init /\ [][NextStore]_vars

\* SpecCalls: generative calls against the sidebar.  Redesign and rotation
\* requests are submitted and return in any order while projects are
\* created, selected and abandoned; nothing else is edited.
NextCalls ==
    \/ LoadComplete("ok")
    \/ WriteComplete(TRUE)
    \/ UploadStart
    \/ \E i \in 1..MaxUploads : UploadComplete(i, TRUE, clock + 1, clock + 1)
    \/ NewProject
    \/ \E sessionId \in 1..MaxClock : SelectSession(sessionId)
    \/ SetPrompt("Add a pool")
    \/ GenerateStart
    \/ RotateStart
    \/ \E i \in 1..MaxCalls, inlineImages \in 0..MaxInlineImages :
            CallComplete(i, ServiceOutcome(inlineImages))

SpecCalls == Init /\ [][NextCalls]_vars

\* SpecService: invocations of redesignRoom and generateRotatedView, one at
\* a time, with images of every size in Edges, every combination of the
\* optional inputs and every outcome of the file reads and of the call.
NextService ==
    \/ /\ service.stage = "idle"
       /\ \E kind \in {"redesign", "rotate"}, width, height \in Edges,
             originalWidth, originalHeight \in Edges,
             product \in AuxFiles("product"),
             background \in AuxFiles("background"), isSketched \in BOOLEAN :
                ServiceInvoke(kind, ImageFile("primary", width, height),
                              originalWidth, originalHeight, product,
                              background, isSketched)
    \/ \E ok \in BOOLEAN : ServiceSend(ok)
    \/ \E inlineImages \in 0..MaxInlineImages :
            ServiceRespond(ServiceOutcome(inlineImages))
    \/ ServiceRespond("error")
    \/ ServiceSettle

SpecService == Init /\ [][NextService]_vars

\* The widths and heights of the images opened in the editor, and the
\* positions the sliders are moved to.
EditorEdges == {1, MaxEdge, 2 * MaxEdge + 3, MAX_DIMENSION}
SliderValues(mode) == {0, 1, SliderMax("trim"), SliderMax(mode)}

\* The modal is opened on an image of w by h pixels: the reset effect sets
\* the margins to 0 and the mode to 'expand' and loads the preview; fillStyle
\* is not reset and keeps the value of the previous opening.
EditorOpen(w, h) ==
    /\ ~editor.isOpen
    /\ editor' = Redraw([editor EXCEPT !.isOpen = TRUE, !.w = w, !.h = h,
                                       !.mode = "expand",
                                       !.margins = NoMargins])
    /\ UNCHANGED <<appVars, service>>

\* The Expand / Trim toggle: setMode(mode).
SetMode(mode) ==
    /\ editor.isOpen
    /\ editor' = Redraw([editor EXCEPT !.mode = mode])
    /\ UNCHANGED <<appVars, service>>

\* A slider is moved: updateMargin(side, parseInt(e.target.value)); the
\* slider offers 0..max of the current mode.
updateMargin(side, value) ==
    /\ editor.isOpen
    /\ value \in 0..SliderMax(editor.mode)
    /\ editor' = Redraw([editor EXCEPT !.margins[side] = value])
    /\ UNCHANGED <<appVars, service>>

\* A fill style button, rendered in expand mode: setFillStyle(style).
SetFillStyle(style) ==
    /\ editor.isOpen
    /\ editor.mode = "expand"
    /\ editor' = Redraw([editor EXCEPT !.fillStyle = style])
    /\ UNCHANGED <<appVars, service>>

\* "Apply & Save" (the canvas becomes the new file and the modal closes),
\* "Cancel", the close icon or a click on the backdrop.
EditorClose ==
    /\ editor.isOpen
    /\ editor' = [editor EXCEPT !.isOpen = FALSE]
    /\ UNCHANGED <<appVars, service>>

\* SpecEditor: the trim/expand editor from its opening to its closing, on
\* images of several sizes, with every order of mode switches and slider
\* movements.
NextEditor ==
    \/ \E w, h \in EditorEdges : EditorOpen(w, h)
    \/ \E mode \in {"trim", "expand"} : SetMode(mode)
    \/ \E side \in Sides, value \in SliderValues(editor.mode) :
            updateMargin(side, value)
    \/ \E style \in {"blur", "white", "black", "transparent"} :
            SetFillStyle(style)
    \/ EditorClose

SpecEditor == Init /\ [][NextEditor]_vars

\* ------------------------------------------------------------- the claims
\* The entries of h at the 0-based indices 0..c followed by newImage.
TruncatedAndExtended(h, c, newImage) == SubSeq(h, 1, c + 1) \o <<newImage>>

\* A step in which the i-th outstanding call, of the given kind, resolves
\* with an image.
Succeeds(i, kind) ==
    /\ i \in 1..Len(calls)
    /\ calls[i].kind = kind
    /\ CallComplete(i, "image")

\* C1: when a redesign (Generate) that was invoked with the history H and
\* the cursor c on screen succeeds, the working history becomes H[0..c]
\* followed by the new image, the cursor becomes its last index, and the
\* stored generations of the session that was active at the invocation
\* become the same sequence.  In particular, wherever the history is
\* [A,B,C] with the cursor on C, two undos and a new image D give [A,D] with
\* the cursor 1.
C1_GenerateTruncatesThenAppends ==
    /\ [](Len(history) = 3 /\ historyIndex = 2 =>
            LET c == handleUndo(handleUndo(historyIndex))
                h == NewHistory(history, c, nextFile)
            IN  h = <<history[1], nextFile>> /\ Len(h) - 1 = 1)
    /\ [][\A i \in 1..MaxCalls :
            Succeeds(i, "redesign") =>
                LET at == calls[i].shown
                    expected == TruncatedAndExtended(at.history, at.historyIndex,
                                                     nextFile)
                IN  /\ at.historyIndex \in -1..(Len(at.history) - 1)
                    /\ history' = expected
                    /\ historyIndex' = Len(expected) - 1
                    /\ \A k \in 1..Len(sessions') :
                            sessions'[k].id = at.activeSessionId
                                => sessions'[k].generations = expected]_vars

\* C1 witness: after two generations, one undo and a third generation the
\* second image is gone: the history is [2, 4] with the cursor on 4, the
\* request is cleared and the session stores the same sequence.
C1_Witness ==
    /\ history = <<2, 4>>
    /\ historyIndex = 1
    /\ prompt = NoPrompt
    /\ sketchedImage = null
    /\ calls = <<>>
    /\ Len(sessions) = 1
    /\ sessions[1].generations = <<2, 4>>

\* C2: when a rotate that was invoked with the history H and the cursor c on
\* screen succeeds, the working history becomes H[0..c] followed by the new
\* image and the cursor becomes its last index, whatever undo, redo and
\* save-sketch operations came before, also with a sketch present.
C2_RotateTruncatesThenAppends ==
    [][\A i \in 1..MaxCalls :
            Succeeds(i, "rotate") =>
                LET at == calls[i].shown
                    expected == TruncatedAndExtended(at.history, at.historyIndex,
                                                     nextFile)
                IN  /\ history' = expected
                    /\ historyIndex' = Len(expected) - 1]_vars

\* C3: in every reachable state the cursor is -1 (the original image) or an
\* index of the working history: -1 <= historyIndex <= Len(history) - 1.
C3_CursorInRange == historyIndex \in -1..(Len(history) - 1)

\* C3 witness: a first session was created and deleted, a second one was
\* given two generations, and an undo put the cursor inside the history.
C3_Witness ==
    /\ clock = 2
    /\ Len(sessions) = 1
    /\ activeSessionId = 2
    /\ Len(history) = 2
    /\ historyIndex = 0

\* C4: undo moves the cursor down by exactly 1 when it is >= 0 and leaves it
\* alone at -1; redo moves it up by exactly 1 when it is below the last
\* index and leaves it alone at the last index.
C4_UndoRedoStepByOne ==
    /\ [](/\ handleUndo(historyIndex) =
                IF historyIndex = -1 THEN -1 ELSE historyIndex - 1
          /\ handleRedo(history, historyIndex) =
                IF historyIndex = Len(history) - 1 THEN historyIndex
                ELSE historyIndex + 1)
    /\ [][/\ Undo => historyIndex >= 0 /\ historyIndex' = historyIndex - 1
          /\ Redo => /\ historyIndex < Len(history) - 1
                     /\ historyIndex' = historyIndex + 1]_vars

\* C4 witness: two undos took the cursor from the second of two generations
\* to the original image, where undo is a no-op and redo is possible.
C4_Witness ==
    /\ Len(history) = 2
    /\ historyIndex = -1
    /\ handleUndo(historyIndex) = -1
    /\ handleRedo(history, historyIndex) = 0

\* C5: undo and redo change the cursor and nothing else: the working
\* history, the base image, the overlay, the session list and the store
\* stay as they are and no store write is queued.
C5_UndoRedoChangeOnlyTheCursor ==
    [][(Undo \/ Redo) =>
            /\ historyIndex' # historyIndex
            /\ UNCHANGED <<history, sceneImage, originalDimensions,
                           sketchedImage, productImage, backgroundImage,
                           prompt, sessions, activeSessionId, sessionsLoaded,
                           db, writes, calls, uploads, edits>>]_vars

\* C5 witness: the cursor is inside the history of a session whose stored
\* generations are still the whole history, with a sketch present and no
\* write pending.
C5_Witness ==
    /\ Len(history) = 2
    /\ historyIndex = 0
    /\ sketchedImage # null
    /\ writes = <<>>
    /\ Len(sessions) = 1
    /\ sessions[1].generations = history

\* The store holds the sessions of the list and nothing else.
StoreHoldsExactly(store, list) ==
    /\ Cardinality(DOMAIN store) = Len(list)
    /\ \A i \in 1..Len(list) :
            list[i].id \in DOMAIN store /\ store[list[i].id] = list[i]

\* C6: the startup load returns all stored sessions newest first and, when
\* there is one, makes the newest the active session: activeSessionId is its
\* id, the working base image, dimensions and history are its own, and the
\* cursor is on its last generation.
C6_LoadActivatesNewest ==
    [][LoadComplete("ok") =>
            /\ StoreHoldsExactly(db, sessions')
            /\ \A i, j \in 1..Len(sessions') :
                    i < j => sessions'[i].timestamp >= sessions'[j].timestamp
            /\ sessions' # <<>> =>
                    /\ activeSessionId' = sessions'[1].id
                    /\ sceneImage' = sessions'[1].sceneImage
                    /\ originalDimensions' = sessions'[1].originalDimensions
                    /\ history' = sessions'[1].generations
                    /\ historyIndex' = Len(sessions'[1].generations) - 1]_vars

\* C7: once the startup load has completed, every step that changes the
\* session list queues a write of the new list, and when the last queued
\* write has been committed the store holds exactly the session list.
C7_StoreFollowsList ==
    [][/\ (sessionsLoaded /\ sessionsLoaded' /\ sessions' # sessions)
            => writes' = Append(writes, sessions')
       /\ (WriteComplete(TRUE) /\ writes' = <<>>)
            => StoreHoldsExactly(db', sessions')]_vars

\* C8: a write that commits leaves in the store exactly the sessions of the
\* list that was written, and a write that fails leaves the store as it was.
C8_WriteReplacesAll ==
    [][/\ WriteComplete(TRUE) => StoreHoldsExactly(db', Head(writes))
       /\ WriteComplete(FALSE) => db' = db]_vars

\* C9: deleting a session removes the sessions with that id and no other; if
\* it was the active one, the first remaining session becomes active with
\* its base image, dimensions and generations loaded and the cursor on its
\* last generation, or, when none remains, the working state is cleared and
\* no session is active; if it was not the active one, the active session
\* and the working state stay as they are.
C9_DeleteSession ==
    [][\A sessionId \in 1..MaxClock :
            DeleteSession(sessionId) =>
                /\ sessions' = SelectSeq(sessions, LAMBDA s : s.id # sessionId)
                /\ IF activeSessionId # sessionId
                   THEN UNCHANGED <<activeSessionId, working>>
                   ELSE IF sessions' # <<>>
                   THEN /\ activeSessionId' = sessions'[1].id
                        /\ sceneImage' = sessions'[1].sceneImage
                        /\ originalDimensions' = sessions'[1].originalDimensions
                        /\ history' = sessions'[1].generations
                        /\ historyIndex' = Len(sessions'[1].generations) - 1
                   ELSE /\ activeSessionId' = null
                        /\ sceneImage' = null
                        /\ originalDimensions' = NoDimensions
                        /\ history' = <<>>
                        /\ historyIndex' = -1
                        /\ sketchedImage' = null
                        /\ productImage' = null
                        /\ backgroundImage' = null
                        /\ prompt' = NoPrompt]_vars

\* C9 witness: three sessions were created, the newest was deleted, and the
\* second, now first in the list, is active with its own base image.
C9_Witness ==
    /\ clock = 3
    /\ Len(sessions) = 2
    /\ sessions[1].id = 2 /\ sessions[2].id = 1
    /\ activeSessionId = 2
    /\ sceneImage = sessions[1].sceneImage
    /\ history = sessions[1].generations

\* C10: an upload that completes puts a new session in front of the list,
\* with the uploaded image as base, the dimensions measured from it and no
\* generations, makes it the active session and empties the working history
\* (cursor -1); the sessions that were there keep their content and order.
C10_UploadCreatesSession ==
    [][\A i \in 1..MaxUploads, idNow \in 1..MaxClock, timestampNow \in 1..MaxClock :
            UploadComplete(i, TRUE, idNow, timestampNow) =>
                /\ Len(sessions') = Len(sessions) + 1
                /\ sessions'[1].sceneImage = uploads[i].file
                /\ sessions'[1].originalDimensions =
                        getImageDimensions(uploads[i].file)
                /\ sessions'[1].generations = <<>>
                /\ \A k \in 1..Len(sessions) : sessions'[k + 1] = sessions[k]
                /\ activeSessionId' = sessions'[1].id
                /\ sceneImage' = uploads[i].file
                /\ originalDimensions' = getImageDimensions(uploads[i].file)
                /\ history' = <<>>
                /\ historyIndex' = -1]_vars

\* C10 witness: a second session was created in front of a first one that
\* keeps its generation; the new one is active with an empty history.
C10_Witness ==
    /\ Len(sessions) = 2
    /\ sessions[1].generations = <<>>
    /\ sessions[2].generations # <<>>
    /\ activeSessionId = sessions[1].id
    /\ sceneImage = sessions[1].sceneImage
    /\ history = <<>>
    /\ historyIndex = -1

\* C11: in every reachable state no two sessions of the in-memory list have
\* the same id (so no two records of the store do), whatever the order and
\* timing of creations and deletions.
C11_SessionIdsUnique ==
    /\ \A i, j \in 1..Len(sessions) : i # j => sessions[i].id # sessions[j].id
    /\ \A k \in DOMAIN db : db[k].id = k

\* C12: a canvas edit (replace base) that was saved while the session with
\* id `id` was active makes the new image the working base and the stored
\* base of that session, with the dimensions measured from it, clears the
\* overlay, empties the working history and the stored generations (cursor
\* -1), keeps the session's id and name, and leaves every other session as
\* it was.
C12_ReplaceBase ==
    [][\A i \in 1..MaxEdits :
            (i <= Len(edits) /\ EditComplete(i, TRUE)) =>
                LET newFile == edits[i].file
                    id == edits[i].activeSessionId
                IN  /\ sceneImage' = newFile
                    /\ originalDimensions' = getImageDimensions(newFile)
                    /\ sketchedImage' = null
                    /\ history' = <<>>
                    /\ historyIndex' = -1
                    /\ Len(sessions') = Len(sessions)
                    /\ \A k \in 1..Len(sessions) :
                        IF sessions[k].id = id
                        THEN /\ sessions'[k].sceneImage = newFile
                             /\ sessions'[k].originalDimensions =
                                    getImageDimensions(newFile)
                             /\ sessions'[k].generations = <<>>
                             /\ sessions'[k].id = sessions[k].id
                             /\ sessions'[k].name = sessions[k].name
                        ELSE sessions'[k] = sessions[k]]_vars

\* C12 witness: the base of the session named 1 is the file 4, made after
\* three other files; its generations and the working history are empty
\* and the overlay is gone.
C12_Witness ==
    /\ clock = 1
    /\ Len(sessions) = 1
    /\ sessions[1].name = 1
    /\ sessions[1].sceneImage = 4
    /\ sessions[1].originalDimensions = getImageDimensions(4)
    /\ sessions[1].generations = <<>>
    /\ sceneImage = 4
    /\ history = <<>> /\ historyIndex = -1
    /\ sketchedImage = null
    /\ rotateMemo.history = <<>>

\* C13: revert-to-original empties the working history, puts the cursor at
\* -1 and clears the overlay, empties the stored generations of the active
\* session, and leaves the base image, the dimensions and every other
\* session as they were.
C13_RevertToOriginal ==
    [][RevertToOriginal =>
            /\ history' = <<>>
            /\ historyIndex' = -1
            /\ sketchedImage' = null
            /\ UNCHANGED <<sceneImage, originalDimensions, activeSessionId>>
            /\ Len(sessions') = Len(sessions)
            /\ \A k \in 1..Len(sessions) :
                IF sessions[k].id = activeSessionId
                THEN /\ sessions'[k].generations = <<>>
                     /\ sessions'[k].sceneImage = sessions[k].sceneImage
                     /\ sessions'[k].originalDimensions =
                            sessions[k].originalDimensions
                     /\ sessions'[k].id = sessions[k].id
                     /\ sessions'[k].name = sessions[k].name
                ELSE sessions'[k] = sessions[k]]_vars

\* C13 witness: two sessions; files 3 and 4 (sketches or generations) were
\* made for the active one and none is left, its base is still its uploaded
\* file, and the other session still has its own.
C13_Witness ==
    /\ Len(sessions) = 2
    /\ nextFile = 5
    /\ activeSessionId = sessions[1].id
    /\ sessions[1].generations = <<>>
    /\ sessions[1].sceneImage = 2
    /\ sessions[2].sceneImage = 1
    /\ sceneImage = 2
    /\ history = <<>> /\ historyIndex = -1
    /\ sketchedImage = null
    /\ calls = <<>> /\ edits = <<>> /\ uploads = <<>>

\* C14: when the service's response holds no part with inline image data, a
\* redesign and a rotate both fail: the completion sets an error message,
\* clears the loading flag, and appends nothing: the working history, the
\* cursor and the stored generations of every session stay as they were.
C14_NoImageFails ==
    [][\A i \in 1..MaxCalls :
            (i <= Len(calls) /\ CallComplete(i, ServiceOutcome(0))) =>
                /\ calls[i].kind \in {"redesign", "rotate"}
                /\ error' # NoError
                /\ isLoading' = FALSE
                /\ history' = history
                /\ historyIndex' = historyIndex
                /\ sessions' = sessions
                /\ nextFile' = nextFile]_vars

\* C14 witness: after one successful generation a redesign got a response
\* without an image: its error is shown, loading is over, and the history
\* still has the one entry the session stores.
C14_Witness ==
    /\ error = "Failed to generate the image. The AI model did not return an image. Please try again."
    /\ ~isLoading
    /\ calls = <<>>
    /\ Len(history) = 1 /\ historyIndex = 0
    /\ Len(sessions) = 1
    /\ sessions[1].generations = history
    /\ prompt # NoPrompt

\* C15: the overlay is cleared by every successful generation, redesign and
\* rotation alike, and by its explicit removal, so the request submitted
\* after a successful generation never takes the old overlay as its input;
\* and no session record (in memory, queued for writing or stored) carries
\* an overlay.  (The thumbnail of DesignSession, a data URL read from the
\* uploaded file at creation and never written again, is not modelled.)
SessionFields == {"id", "name", "timestamp", "sceneImage",
                  "originalDimensions", "generations"}

C15_OverlayCleared ==
    /\ [][/\ \A i \in 1..MaxCalls :
                (Succeeds(i, "redesign") \/ Succeeds(i, "rotate")) =>
                    sketchedImage' = null
          /\ RemoveSketch => sketchedImage' = null]_vars
    /\ [](/\ \A i \in 1..Len(sessions) : DOMAIN sessions[i] = SessionFields
          /\ \A k \in DOMAIN db : DOMAIN db[k] = SessionFields
          /\ \A w \in 1..Len(writes) : \A i \in 1..Len(writes[w]) :
                DOMAIN writes[w][i] = SessionFields)

\* C16: at most one generative call is outstanding at any time: while a
\* redesign or rotation is in flight, no sequence of user operations
\* (selecting or creating a session, starting a new project) makes a second
\* submission possible before the first has resolved.
C16_OneCallOutstanding == Len(calls) <= 1

\* C17: a submission sets the loading flag, and every submitted redesign or
\* rotation that returns, with an image, with no image or with an error,
\* resolves the pending state: the step in which it returns sets the
\* loading flag to false, so the flag is not left true by a completed call.
C17_CallResolvesPending ==
    [][/\ Len(calls') > Len(calls) => isLoading'
       /\ \A i \in 1..MaxCalls, outcome \in {"image", "noimage", "error"} :
            CallComplete(i, outcome) => ~isLoading']_vars

\* A rotation has returned with an error other than a missing image and the
\* loading flag is false again.
C17_Witness ==
    /\ error = "Failed to generate the rotated view. An unknown error occurred."
    /\ ~isLoading
    /\ calls = <<>>
    /\ sceneImage # null

\* C18: a store write that fails (the store cannot be opened, or the
\* transaction errors) changes nothing but the write queue: the in-memory
\* session list, the working history and the cursor (and every other piece
\* of state, the store included) are as before, nothing is rolled back, and
\* the writes queued behind it are still to run, so later operations and
\* later writes proceed as after a write that succeeded.
C18_FailedWriteLeavesMemory ==
    [][WriteComplete(FALSE) =>
            /\ sessions' = sessions
            /\ history' = history
            /\ historyIndex' = historyIndex
            /\ activeSessionId' = activeSessionId
            /\ working' = working
            /\ sessionsLoaded' = sessionsLoaded
            /\ <<calls, uploads, edits, loadPending>>' =
                    <<calls, uploads, edits, loadPending>>
            /\ db' = db
            /\ writes' = Tail(writes)]_vars

\* The list holds two sessions and no write is pending, but the store holds
\* only the older one: the write of the two-session list failed and the
\* list was kept.
C18_Witness ==
    /\ restarts = 0
    /\ sessionsLoaded
    /\ Len(sessions) = 2
    /\ sessions[1].id # sessions[2].id
    /\ writes = <<>>
    /\ DOMAIN db = {sessions[2].id}
    /\ db[sessions[2].id] = sessions[2]

\* C19: a fresh load of a list that was persisted returns it in the order in
\* which it was held in memory (newest inserted at the front), which is the
\* order of descending creation timestamp: sessions created as S1, S2, S3
\* are loaded as [S3, S2, S1].  Stated for lists whose sessions have
\* distinct ids.
C19_LoadedOrderIsListOrder ==
    [][(/\ WriteComplete(TRUE)
        /\ \A i, j \in 1..Len(Head(writes)) :
                i # j => Head(writes)[i].id # Head(writes)[j].id)
            => loadSessionsFromDB(db') = Head(writes)]_vars

\* C20: the primary input image of a submitted redesign or rotation is the
\* working overlay if one is present, otherwise history[cursor] if the
\* cursor is >= 0, otherwise the base image; and a redesign is flagged
\* is-sketched exactly when the overlay is present.
C20_PrimaryInputPrecedence ==
    [][Len(calls') > Len(calls) =>
            LET request == calls'[Len(calls')]
            IN  /\ request.image =
                        IF sketchedImage # null THEN sketchedImage
                        ELSE IF historyIndex >= 0 THEN history[historyIndex + 1]
                        ELSE sceneImage
                /\ request.kind = "redesign" =>
                        (request.isSketched <=> sketchedImage # null)]_vars

\* A redesign is in flight that was submitted with an overlay drawn over a
\* generated image: its input is the overlay, not history[cursor] and not
\* the base, and it is flagged is-sketched.
C20_Witness ==
    /\ Len(calls) = 1
    /\ calls[1].kind = "redesign"
    /\ historyIndex >= 0
    /\ sketchedImage # null
    /\ calls[1].image = sketchedImage
    /\ calls[1].image # history[historyIndex + 1]
    /\ calls[1].image # sceneImage
    /\ calls[1].isSketched

\* C21: in every reachable state each session's originalDimensions are the
\* dimensions measured from that session's current base image, no step other
\* than a session creation or a replace-base changes the base or the
\* dimensions of a session, and the dimensions handed to a generative call
\* are those of the base image of the session it is submitted for (the
\* active session).
C21_DimensionsDescribeBase ==
    /\ [](\A i \in 1..Len(sessions) :
            sessions[i].originalDimensions =
                getImageDimensions(sessions[i].sceneImage))
    /\ [][/\ (\A i \in 1..MaxUploads, ok \in BOOLEAN,
                 idNow, timestampNow \in 0..MaxClock :
                    ~UploadComplete(i, ok, idNow, timestampNow))
             /\ (\A i \in 1..MaxEdits : ~EditComplete(i, TRUE))
             => \A i \in 1..Len(sessions'), j \in 1..Len(sessions) :
                    sessions'[i].id = sessions[j].id =>
                        /\ sessions'[i].sceneImage = sessions[j].sceneImage
                        /\ sessions'[i].originalDimensions =
                                sessions[j].originalDimensions
          /\ Len(calls') > Len(calls) =>
                /\ calls'[Len(calls')].dimensions =
                        getImageDimensions(sceneImage)
                /\ HasId(sessions, activeSessionId) =>
                        calls'[Len(calls')].dimensions =
                            getImageDimensions(
                                Find(sessions, activeSessionId).sceneImage)]_vars

\* C22: for an image of width w and height h and a square edge
\* S >= max(w, h), restoring the normalized image with the arguments
\* (w, h, S) yields an image of exactly w x h pixels.
C22_RestoreYieldsOriginalSize ==
    (/\ service.stage = "returned"
     /\ service.originalWidth = service.image.width
     /\ service.originalHeight = service.image.height
     /\ MAX_DIMENSION >= Max(service.image.width, service.image.height))
        => /\ service.result.width = service.image.width
           /\ service.result.height = service.image.height

\* C23: for an image of width w and height h and target size S, the
\* rectangle restore extracts, computed from (w, h, S), is the rectangle in
\* which normalize drew the scaled content: the longer edge is S, the
\* shorter edge is S * min(w, h) / max(w, h), and it is centered; so the
\* restored image takes in no padding and its canvas leaves out less than
\* one row and less than one column of the content.
C23_RestoreExtractsWhatNormalizeDrew ==
    (/\ service.stage = "returned"
     /\ service.originalWidth = service.image.width
     /\ service.originalHeight = service.image.height)
        => LET w == service.image.width
               h == service.image.height
               S == Rat(MAX_DIMENSION, 1)
               extracted == cropRect(service.originalWidth,
                                     service.originalHeight, MAX_DIMENSION)
               longer == IF w > h THEN extracted.width ELSE extracted.height
               shorter == IF w > h THEN extracted.height ELSE extracted.width
               size == service.result
           IN  /\ extracted = service.drawn
               /\ longer = S
               /\ shorter = Rat(MAX_DIMENSION * Min(w, h), Max(w, h))
               /\ RatSub(RatSub(S, extracted.x), extracted.width) = extracted.x
               /\ RatSub(RatSub(S, extracted.y), extracted.height) = extracted.y
               /\ ~RatLess(extracted.width, Rat(size.width, 1))
               /\ ~RatLess(extracted.height, Rat(size.height, 1))
               /\ RatLess(RatSub(extracted.width, Rat(size.width, 1)), Rat(1, 1))
               /\ RatLess(RatSub(extracted.height, Rat(size.height, 1)), Rat(1, 1))

\* A 3 x 2 image has been normalized, sent and restored with its own
\* dimensions: the content was drawn below a band of padding and the
\* restored image is 1024 x 682.
C23_Witness ==
    /\ service.stage = "returned"
    /\ service.image = ImageFile("primary", 3, 2)
    /\ service.originalWidth = 3
    /\ service.originalHeight = 2
    /\ service.drawn.x = <<0, 1>>
    /\ service.drawn.y # <<0, 1>>
    /\ service.result = ImageFile("generated", 1024, 682)

\* C24: after normalize the content rectangle is centered in the S x S
\* canvas for every w, h >= 1: the left and right padding differ by at most
\* one pixel, and so do the top and bottom padding, as drawn and in whole
\* padding columns and rows.
C24_PaddingCentered ==
    service.stage \in {"sent", "returned"} =>
        LET S == Rat(MAX_DIMENSION, 1)
            rect == service.drawn
            left == rect.x
            right == RatSub(RatSub(S, rect.x), rect.width)
            top == rect.y
            bottom == RatSub(RatSub(S, rect.y), rect.height)
            Within1(a, b) ==
                /\ ~RatLess(Rat(1, 1), IF RatLess(a, b) THEN RatSub(b, a)
                                       ELSE RatSub(a, b))
                /\ ToUnsignedLong(a) - ToUnsignedLong(b) \in {-1, 0, 1}
        IN  /\ ~RatLess(S, rect.width) /\ ~RatLess(S, rect.height)
            /\ Within1(left, right)
            /\ Within1(top, bottom)

\* A 3 x 4 image has been normalized: it is drawn 768 pixels wide with 128
\* columns of padding on each side.
C24_Witness ==
    /\ service.stage = "sent"
    /\ service.image = ImageFile("primary", 3, 4)
    /\ service.drawn.width = <<768, 1>>
    /\ service.drawn.x = <<128, 1>>
    /\ service.drawn.y = <<0, 1>>

IsImagePart(part) == "inlineData" \in DOMAIN part
IsTextPart(part) == "text" \in DOMAIN part
Blocks(text) == {text[i] : i \in 1..Len(text)}

\* C25: a redesign request is its image parts followed by exactly one text
\* part, which is last; the image parts are the primary image, then the
\* product image if one is supplied, then the background image if one is
\* supplied (1 image part with neither, 3 in the order primary, product,
\* background with both); the text holds the sketch-constraint block iff
\* is-sketched, the product block iff a product is supplied and the
\* background block iff a background is supplied.
C25_RedesignRequestParts ==
    (service.stage \in {"sent", "returned"} /\ service.kind = "redesign") =>
        LET parts == service.parts
            n == Len(parts)
            hasProduct == service.productImage # NoFile
            hasBackground == service.backgroundImage # NoFile
            roles == <<"primary">>
                        \o (IF hasProduct THEN <<"product">> ELSE <<>>)
                        \o (IF hasBackground THEN <<"background">> ELSE <<>>)
        IN  /\ n = Len(roles) + 1
            /\ IsTextPart(parts[n])
            /\ \A i \in 1..(n - 1) :
                    /\ IsImagePart(parts[i])
                    /\ parts[i].inlineData.name = roles[i]
            /\ (~hasProduct /\ ~hasBackground) => n - 1 = 1
            /\ (hasProduct /\ hasBackground) =>
                    /\ n - 1 = 3
                    /\ parts[2].inlineData = service.productImage
                    /\ parts[3].inlineData = service.backgroundImage
            /\ SketchBlock \in Blocks(parts[n].text) <=> service.isSketched
            /\ ProductBlock \in Blocks(parts[n].text) <=> hasProduct
            /\ BackgroundBlock \in Blocks(parts[n].text) <=> hasBackground

\* A sketched redesign with a product and a background has been sent: four
\* parts, the text last.
C25_Witness ==
    /\ service.stage = "sent"
    /\ service.kind = "redesign"
    /\ service.isSketched
    /\ service.productImage # NoFile
    /\ service.backgroundImage # NoFile
    /\ Len(service.parts) = 4
    /\ IsTextPart(service.parts[4])

Position(seq, x) == CHOOSE i \in 1..Len(seq) : seq[i] = x

\* C26: the instruction blocks of a redesign request's text are, in this
\* order, the base instruction, the sketch constraint (if present), the
\* product integration (if present), the background replacement (if
\* present) and the trailing output requirement, for all 8 combinations of
\* the optional inputs; and the auxiliary image parts come in the order of
\* their instruction blocks.
C26_BlockOrder ==
    (service.stage \in {"sent", "returned"} /\ service.kind = "redesign") =>
        LET parts == service.parts
            text == parts[Len(parts)].text
            hasProduct == service.productImage # NoFile
            hasBackground == service.backgroundImage # NoFile
            Present(block) ==
                \/ block \in {RoleAndGoal, FinalOutput}
                \/ block = SketchBlock /\ service.isSketched
                \/ block = ProductBlock /\ hasProduct
                \/ block = BackgroundBlock /\ hasBackground
            images == [i \in 1..(Len(parts) - 1) |-> parts[i].inlineData]
        IN  /\ text = SelectSeq(<<RoleAndGoal, SketchBlock, ProductBlock,
                                  BackgroundBlock, FinalOutput>>, Present)
            /\ (hasProduct /\ hasBackground) =>
                    (Position(text, ProductBlock) < Position(text, BackgroundBlock)
                        <=> Position(images, service.productImage)
                                < Position(images, service.backgroundImage))

\* A sketched redesign with a product and a background has returned: its
\* text had all five blocks.
C26_Witness ==
    /\ service.stage = "returned"
    /\ service.kind = "redesign"
    /\ service.isSketched
    /\ service.productImage # NoFile
    /\ service.backgroundImage # NoFile
    /\ Len(service.parts[Len(service.parts)].text) = 5

\* C27: every image part of a request sent to the generative model is a
\* normalized image, letterboxed to MAX_DIMENSION x MAX_DIMENSION: the
\* primary image and each auxiliary product or background image.
C27_EveryImagePartNormalized ==
    service.stage \in {"sent", "returned"} =>
        \A i \in 1..Len(service.parts) :
            IsImagePart(service.parts[i]) =>
                /\ service.parts[i].inlineData.width = MAX_DIMENSION
                /\ service.parts[i].inlineData.height = MAX_DIMENSION

\* C28: an invocation of redesign or rotate submits exactly one request to
\* the generative model (none when it fails before sending); when the call
\* fails, with no image returned or with an error, the invocation ends
\* without sending again, and a request is only ever sent as the first
\* request of an invocation.
C28_OneRequestPerInvocation ==
    /\ [](service.stage # "idle" =>
            /\ service.requests <= 1
            /\ service.stage \in {"sent", "returned"} => service.requests = 1
            /\ service.stage = "invoked" => service.requests = 0)
    /\ [][/\ (service.stage = "sent" /\ service'.stage # "returned") =>
                /\ service'.stage = "failed"
                /\ service'.requests = service.requests
          /\ (service.stage = "failed" /\ service' # service) =>
                service' = ServiceIdle
          /\ (service'.stage # "idle" /\ service.stage # "idle"
                /\ service'.requests # service.requests) =>
                    /\ service.stage = "invoked"
                    /\ service.requests = 0
                    /\ service'.requests = 1]_vars

\* A rotation has failed because the response held no image, after its one
\* request.
C28_Witness ==
    /\ service.stage = "failed"
    /\ service.kind = "rotate"
    /\ service.thrown = NoImageMessage("rotate")
    /\ service.requests = 1

\* C29: whenever a session is active (after the startup load), its id names
\* a session of the in-memory list, and the working base image, the working
\* originalDimensions and the working history are that session's stored
\* sceneImage, originalDimensions and generations, after any sequence of
\* operations.
C29_WorkingStateIsActiveSession ==
    (sessionsLoaded /\ activeSessionId # null) =>
        /\ HasId(sessions, activeSessionId)
        /\ sceneImage = Find(sessions, activeSessionId).sceneImage
        /\ originalDimensions = Find(sessions, activeSessionId).originalDimensions
        /\ history = Find(sessions, activeSessionId).generations

\* C30: when the active session has changed while a generative call was in
\* flight (another session selected or created, the active one deleted, a
\* new project started), the completion of the call leaves the working
\* history and cursor of the now active session as they are, and adds its
\* result to no session other than the one that was active when the call
\* was submitted.
C30_LateCompletionKeptOutOfNewSession ==
    [][\A i \in 1..MaxCalls :
        (/\ i <= Len(calls)
         /\ calls[i].shown.activeSessionId # activeSessionId
         /\ CallComplete(i, "image")) =>
            /\ history' = history
            /\ historyIndex' = historyIndex
            /\ Len(sessions') = Len(sessions)
            /\ \A k \in 1..Len(sessions) :
                    sessions[k].id # calls[i].shown.activeSessionId =>
                        sessions'[k] = sessions[k]]_vars

\* C31: a session created by an upload that completed before the startup
\* load finished is still in the in-memory list after the load finishes
\* (and is in the list the load's completion queues for writing): the
\* completion of the load discards no session created in this page load.
C31_LoadKeepsCreatedSessions ==
    [][LoadComplete("ok") =>
            \A i \in 1..Len(sessions) :
                /\ \E j \in 1..Len(sessions') : sessions'[j] = sessions[i]
                /\ writes' # <<>>
                /\ \E j \in 1..Len(writes'[Len(writes')]) :
                        writes'[Len(writes')][j] = sessions[i]]_vars

\* C32: no store write is issued before the startup load has completed, and
\* the first write after it, the one its completion issues, writes a list
\* that holds every session the store held: the initially empty in-memory
\* list never overwrites sessions of the durable store.
C32_FirstWriteKeepsStoredSessions ==
    [][/\ Len(writes') > Len(writes) => sessionsLoaded'
       /\ \A outcome \in {"ok", "openfail", "getfail"} :
            (LoadComplete(outcome) /\ writes' # writes) =>
                \A k \in DOMAIN db :
                    \E j \in 1..Len(writes'[Len(writes')]) :
                        writes'[Len(writes')][j] = db[k]]_vars

\* C33: when a replace-base and a generative call of the same session have
\* overlapped and both have completed, the working history and the session's
\* generations hold no image that was generated from the old base image and
\* restored with its dimensions: an image the completion of a call adds was
\* requested with the dimensions of the base the session has now.
C33_NoImageOfOldBase ==
    [][\A i \in 1..Len(calls) :
          (/\ CallComplete(i, "image")
           /\ edits = <<>>
           /\ calls[i].closure.activeSessionId = activeSessionId
           /\ \E k \in 1..Len(history') : history'[k] = nextFile)
          => calls[i].dimensions = originalDimensions']_vars

\* C34: an append edit (the completion of a generative call with an image),
\* a revert-to-original and a replace-base (the completion of a canvas edit)
\* change only the record of the session that is active when they are
\* applied: the list keeps its length and order, and every record whose id
\* is not the active one is unchanged in all its fields.
C34_OnlyActiveSessionModified ==
    [][(\/ RevertToOriginal
        \/ \E i \in 1..Len(calls) : CallComplete(i, "image")
        \/ \E i \in 1..Len(edits) : EditComplete(i, TRUE))
       => /\ Len(sessions') = Len(sessions)
          /\ \A k \in 1..Len(sessions) :
                sessions[k].id # activeSessionId => sessions'[k] = sessions[k]]_vars

\* C35: in every redesign request that includes a background image, the
\* ordinal by which the background-replacement instruction refers to the
\* background image is the 1-based position of the background part among
\* the parts of the request, with and without a product image.
C35_BackgroundOrdinalIsPosition ==
    (/\ service.stage \in {"sent", "returned"}
     /\ service.kind = "redesign"
     /\ service.backgroundImage # NoFile) =>
        LET parts == service.parts
            text == parts[Len(parts)].text
        IN  /\ BackgroundBlock \in Blocks(text)
            /\ \E i \in 1..Len(parts) :
                /\ IsImagePart(parts[i])
                /\ parts[i].inlineData = service.backgroundImage
                /\ i = OrdinalInBlock(BackgroundBlock)

\* C36: selecting a session whose id is in the list replaces the whole
\* working state by that session's: its base image and originalDimensions,
\* its generations as the history, the cursor on the last of them
\* (len(generations) - 1), the session active, and overlay, product,
\* background, prompt and error cleared; a selection whose id is not in the
\* list the handler searches (the mount effect's, whose list is the initial
\* empty one) changes nothing of the working state or the active id.
C36_SelectReplacesWorkingState ==
    [][/\ \A sessionId \in 1..MaxClock :
            SelectSession(sessionId) =>
                LET session == Find(sessions, sessionId)
                IN  /\ HasId(sessions, sessionId)
                    /\ sceneImage' = session.sceneImage
                    /\ originalDimensions' = session.originalDimensions
                    /\ history' = session.generations
                    /\ historyIndex' = Len(session.generations) - 1
                    /\ activeSessionId' = sessionId
                    /\ sketchedImage' = null
                    /\ productImage' = null
                    /\ backgroundImage' = null
                    /\ prompt' = NoPrompt
                    /\ error' = NoError
                    /\ sessions' = sessions
       /\ (/\ LoadComplete("ok")
           /\ Len(sessions') > 0
           /\ ~HasId(MountSessions, sessions'[1].id))
            => UNCHANGED <<working, activeSessionId>>]_vars

\* A session that is not the first of the list and has generations has been
\* selected: it is active and its last generation is shown.
C36_Witness ==
    /\ Len(sessions) >= 2
    /\ sessions[2].id = activeSessionId
    /\ sessions[1].id # activeSessionId
    /\ Len(sessions[2].generations) > 0
    /\ history = sessions[2].generations
    /\ historyIndex = Len(history) - 1
    /\ sceneImage = sessions[2].sceneImage

C38_EditorResultSize ==
    editor.isOpen =>
        LET w == editor.w
            h == editor.h
            left == MarginPixels(w, editor.margins.left)
            right == MarginPixels(w, editor.margins.right)
            top == MarginPixels(h, editor.margins.top)
            bottom == MarginPixels(h, editor.margins.bottom)
        IN  /\ editor.mode = "trim" =>
                /\ editor.canvas.width = Max(1, w - left - right)
                /\ editor.canvas.height = Max(1, h - top - bottom)
                /\ 10 * editor.canvas.width >= w
                /\ 10 * editor.canvas.height >= h
            /\ editor.mode = "expand" =>
                /\ editor.canvas.width = w + left + right
                /\ editor.canvas.height = h + top + bottom
                /\ editor.canvas.offsetX = left
                /\ editor.canvas.offsetY = top

====
